---------------------------- MODULE Spec2Model ----------------------------
(***************************************************************************)
(* A model of src/monitor.py: the connection matchers of the host and the  *)
(* container backend, the per-client session tracker, the stats store and  *)
(* the connected/disconnected polling loop of main().                      *)
(*                                                                         *)
(* Python strings that the code splits, parses or prefix-tests (address    *)
(* tokens, port tokens, IPs) are sequences of one-character strings, so    *)
(* that split(":"), int(...) and startswith(...) are computed, not assumed.*)
(* Time is in whole seconds.                                               *)
(***************************************************************************)
EXTENDS Integers, Sequences, FiniteSets, TLC

VARIABLES
    container_name,        \* config["container_name"]: "" selects the host backend
    socks_port,            \* config["socks_port"]
    target_ports,          \* config["target_ports"]: a list of JSON ints / strings
    now,                   \* the wall clock, datetime.now()
    client_sessions,       \* main: dict ip -> start time, in insertion order
    last_status,           \* main: "connected" / "disconnected"
    connection_start_time, \* main: a time, or None
    stats,                 \* StatsManager.stats: dict in insertion order
    active_connections,    \* main: the target matches of the last completed poll
    active_clients,        \* main: the client addresses of the last completed poll
    table,                 \* the socket table the last poll looked at
    cmd_ok,                \* whether the last poll's listing call succeeded
    ev,                    \* history: what the last loop iteration did
    notifications,         \* history: the webhook titles sent so far
    fields,                \* main: the local variable fields - whether it is
                           \* bound, and the list it is bound to
    ip_country_cache,      \* the module's dict ip -> geolocation record
    pc,                    \* main: "running" in the loop, "stopped" after the
                           \* KeyboardInterrupt handler, "crashed" on any other
                           \* exception that leaves main
    disk,                  \* stats.json: whether it holds a whole document, and
                           \* the document
    acct                   \* history: per open session, the time of the poll that
                           \* opened it, the sum and number of the deltas recorded
                           \* for it, the completed polls that saw it, and the
                           \* seconds its iterations took beyond the poll interval

vars == <<container_name, socks_port, target_ports, now, client_sessions,
          last_status, connection_start_time, stats, active_connections,
          active_clients, table, cmd_ok, ev, notifications, fields,
          ip_country_cache, pc, disk, acct>>

config == <<container_name, socks_port, target_ports>>

None == "None"

-----------------------------------------------------------------------------
(* Strings as sequences of characters                                       *)

DigitChars == <<"0", "1", "2", "3", "4", "5", "6", "7", "8", "9">>

IsDigit(c) == \E i \in 1..10 : DigitChars[i] = c

DigitVal(c) == (CHOOSE i \in 1..10 : DigitChars[i] = c) - 1

\* str(n) for n >= 0
RECURSIVE Str(_)
Str(n) == IF n < 10 THEN <<DigitChars[n + 1]>>
          ELSE Str(n \div 10) \o <<DigitChars[(n % 10) + 1]>>

RECURSIVE DigitsValue(_)
DigitsValue(s) == IF s = <<>> THEN 0
                  ELSE 10 * DigitsValue(SubSeq(s, 1, Len(s) - 1)) + DigitVal(s[Len(s)])

ValueError == -1

\* int(s) of a string: the number, or ValueError. (Signs, blanks and
\* underscores, which int() also accepts, occur in no token of the model.)
ParseInt(s) == IF s # <<>> /\ \A i \in 1..Len(s) : IsDigit(s[i])
               THEN DigitsValue(s) ELSE ValueError

Colons(s) == {i \in 1..Len(s) : s[i] = ":"}

Max(S) == CHOOSE x \in S : \A y \in S : y <= x
Min(S) == CHOOSE x \in S : \A y \in S : x <= y

\* s.split(":")[-1]
SplitLast(s) == IF Colons(s) = {} THEN s ELSE SubSeq(s, Max(Colons(s)) + 1, Len(s))

\* s.split(":")[0]
SplitFirst(s) == IF Colons(s) = {} THEN s ELSE SubSeq(s, 1, Min(Colons(s)) - 1)

\* s.rsplit(":", 1)[0]
RSplitHead(s) == IF Colons(s) = {} THEN s ELSE SubSeq(s, 1, Max(Colons(s)) - 1)

\* s.startswith(p)
StartsWith(s, p) == Len(s) >= Len(p) /\ SubSeq(s, 1, Len(p)) = p

\* f"{ip}:{port}"
AddrToken(ip, port) == ip \o <<":">> \o Str(port)

InSeq(x, s) == \E i \in 1..Len(s) : s[i] = x

-----------------------------------------------------------------------------
(* JSON values of the configuration: an int or a string                     *)

I(n) == [t |-> "int", n |-> n, s |-> <<>>]
S(s) == [t |-> "str", n |-> 0, s |-> s]

Star == S(<<"*">>)

\* Python ==: an int never equals a string
PyEq(a, b) == a.t = b.t /\ (IF a.t = "int" THEN a.n = b.n ELSE a.s = b.s)

\* x in lst
PyIn(x, lst) == \E i \in 1..Len(lst) : PyEq(lst[i], x)

\* int(v): the number, or ValueError
PyInt(v) == IF v.t = "int" THEN v.n ELSE ParseInt(v.s)

-----------------------------------------------------------------------------
(* The socket table and its two views                                       *)

\* One entry of the kernel's socket table. A listening socket has no remote
\* address: rip = <<>> and rport = 0 (psutil: conn.raddr is empty).
Conn(status, lip, lport, rip, rport, pid) ==
    [status |-> status, lip |-> lip, lport |-> lport,
     rip |-> rip, rport |-> rport, pid |-> pid]

\* `netstat -tunap` prints one line per socket; the line is kept as the
\* result of line.split(): its field count, fields 4, 5, 6 and 7. Without
\* the rights to see the owning process netstat prints "-" for it.
\* netstat prints the port 0 as "*".
NetstatLine(c) ==
    [nparts  |-> 7,
     local   |-> AddrToken(c.lip, c.lport),
     remote  |-> IF c.rip = <<>> THEN <<"0", ".", "0", ".", "0", ".", "0", ":", "*">>
                 ELSE IF c.rport = 0 THEN c.rip \o <<":", "*">>
                 ELSE AddrToken(c.rip, c.rport),
     state   |-> c.status,
     process |-> IF c.pid = "Unknown" THEN "-" ELSE c.pid]

NetstatOutput(tbl) == [i \in 1..Len(tbl) |-> NetstatLine(tbl[i])]

\* get_docker_netstat_output: the lines, or [] when the command fails
get_docker_netstat_output(ok, tbl) == IF ok THEN NetstatOutput(tbl) ELSE <<>>

\* not (len(parts) < 5 or 'ESTABLISHED' not in line)
Eligible(line) == ~(line.nparts < 5 \/ line.state # "ESTABLISHED")

\* int(local_addr.split(":")[-1]) == int(socks_port), False when int() raises
LocalPortIsSocks(local_addr, sp) ==
    /\ ParseInt(SplitLast(local_addr)) # ValueError
    /\ ParseInt(SplitLast(local_addr)) = sp

\* check_docker_connections, first loop: the client addresses
RECURSIVE DockerClients(_, _, _)
DockerClients(lines, sp, clients) ==
    IF lines = <<>> THEN clients
    ELSE LET line == Head(lines) IN
         IF Eligible(line) /\ LocalPortIsSocks(line.local, sp)
               /\ ~InSeq(line.remote, clients)
         THEN DockerClients(Tail(lines), sp, Append(clients, line.remote))
         ELSE DockerClients(Tail(lines), sp, clients)

\* for port in target_ports: ... int(port) == current_port ... break
RECURSIVE PortLoop(_, _)
PortLoop(ports, current_port) ==
    IF ports = <<>> THEN "nomatch"
    ELSE LET port == Head(ports) IN
         IF PyEq(port, Star) THEN PortLoop(Tail(ports), current_port)
         ELSE IF PyInt(port) = ValueError THEN "raise"
         ELSE IF PyInt(port) = current_port THEN "match"
         ELSE PortLoop(Tail(ports), current_port)

Loopback4 == <<"1", "2", "7", ".", "0", ".", "0", ".", "1">>
Loopback6 == <<":", ":", "1">>

\* the is_match decision of the container backend: "match", "nomatch", "raise"
DockerIsMatch(remote_addr, current_port, tp) ==
    IF PyIn(Star, tp)
    THEN IF ~StartsWith(remote_addr, Loopback4) /\ ~StartsWith(remote_addr, Loopback6)
         THEN "match" ELSE "nomatch"
    ELSE PortLoop(tp, current_port)

DockerExists(found, remote_addr, current_port) ==
    \E i \in 1..Len(found) : found[i].remote = remote_addr /\ found[i].port = current_port

\* check_docker_connections, second loop: [raised, found]
RECURSIVE DockerFound(_, _, _, _, _)
DockerFound(lines, sp, tp, clients, found) ==
    IF lines = <<>> THEN [raised |-> FALSE, found |-> found]
    ELSE LET line == Head(lines)
             rest == Tail(lines)
             is_client == InSeq(line.remote, clients) \/ LocalPortIsSocks(line.local, sp)
             current_port == ParseInt(SplitLast(line.remote))
             is_match == DockerIsMatch(line.remote, current_port, tp)
             conn_details == [remote  |-> line.remote,
                              local   |-> line.local,
                              port    |-> current_port,
                              process |-> IF line.nparts >= 7 THEN line.process
                                          ELSE "Unknown"]
         IN  IF ~Eligible(line) THEN DockerFound(rest, sp, tp, clients, found)
             ELSE IF is_client THEN DockerFound(rest, sp, tp, clients, found)
             ELSE IF current_port = ValueError THEN DockerFound(rest, sp, tp, clients, found)
             ELSE IF is_match = "raise" THEN [raised |-> TRUE, found |-> found]
             ELSE IF is_match = "match" /\ ~DockerExists(found, line.remote, current_port)
                  THEN DockerFound(rest, sp, tp, clients, Append(found, conn_details))
             ELSE DockerFound(rest, sp, tp, clients, found)

\* The (found_connections, active_clients) pair, or (None, None)
Result(found, clients) == [nodata |-> FALSE, found |-> found, clients |-> clients]
NoData == [nodata |-> TRUE, found |-> <<>>, clients |-> <<>>]

check_docker_connections(ok, tbl, tp, sp) ==
    LET lines   == get_docker_netstat_output(ok, tbl)
        clients == DockerClients(lines, sp, <<>>)
        second  == DockerFound(lines, sp, tp, clients, <<>>)
    IN  IF second.raised THEN NoData ELSE Result(second.found, clients)

\* the is_match decision of the host backend
HostIsMatch(r_ip, r_port, tp) ==
    IF PyIn(Star, tp) THEN r_ip # Loopback4 /\ r_ip # Loopback6
    ELSE PyIn(I(r_port), tp)

\* check_connections, the loop over psutil.net_connections()
RECURSIVE HostLoop(_, _, _, _, _)
HostLoop(connections, sp, tp, found, clients) ==
    IF connections = <<>> THEN Result(found, clients)
    ELSE LET conn == Head(connections)
             rest == Tail(connections)
             client == AddrToken(conn.rip, conn.rport)
             clients1 == IF conn.lport = sp /\ conn.rip # <<>> /\ ~InSeq(client, clients)
                         THEN Append(clients, client) ELSE clients
             found1 == IF conn.rport # 0 /\ HostIsMatch(conn.rip, conn.rport, tp)
                       THEN Append(found, [remote  |-> AddrToken(conn.rip, conn.rport),
                                           local   |-> AddrToken(conn.lip, conn.lport),
                                           port    |-> conn.rport,
                                           process |-> conn.pid])
                       ELSE found
         IN  IF conn.status = "ESTABLISHED"
             THEN HostLoop(rest, sp, tp, found1, clients1)
             ELSE HostLoop(rest, sp, tp, found, clients)

\* check_connections: psutil.AccessDenied leaves both lists empty
check_connections(ok, tbl, sp, tp) ==
    IF ok THEN HostLoop(tbl, sp, tp, <<>>, <<>>) ELSE Result(<<>>, <<>>)

\* main, lines 390-397: the backend is selected by container_name
PollResult(cn, ok, tbl, tp, sp) ==
    IF cn # "" THEN check_docker_connections(ok, tbl, tp, sp)
    ELSE check_connections(ok, tbl, sp, tp)

-----------------------------------------------------------------------------
(* StatsManager and the session tracker                                     *)

Keys(d) == {d[i].ip : i \in 1..Len(d)}

IndexOf(d, ip) == CHOOSE i \in 1..Len(d) : d[i].ip = ip

\* the orders in which a loop over a Python set may visit its members
Orders(set) == {o \in [1..Cardinality(set) -> set] :
                   \A i, j \in 1..Cardinality(set) : i # j => o[i] # o[j]}

\* An update that stamps first_seen every time.
update_client_restamps(st, ip, duration_seconds, t) ==
    LET st1 == IF ip \in Keys(st) THEN st
               ELSE Append(st, [ip |-> ip, total_duration |-> 0,
                                first_seen |-> t, last_seen |-> t])
        i   == IndexOf(st1, ip)
    IN  [st1 EXCEPT ![i].total_duration = @ + duration_seconds,
                    ![i].first_seen = t,
                    ![i].last_seen = t]

\* An update that stores the duration it is given in place of adding it.
update_client_overwrites(st, ip, duration_seconds, t) ==
    LET st1 == IF ip \in Keys(st) THEN st
               ELSE Append(st, [ip |-> ip, total_duration |-> 0,
                                first_seen |-> t, last_seen |-> t])
        i   == IndexOf(st1, ip)
    IN  [st1 EXCEPT ![i].total_duration = duration_seconds,
                    ![i].last_seen = t]

\* StatsManager.update_client at time t
update_client(st, ip, duration_seconds, t) ==
    LET st1 == IF ip \in Keys(st) THEN st
               ELSE Append(st, [ip |-> ip, total_duration |-> 0,
                                first_seen |-> t, last_seen |-> t])
        i   == IndexOf(st1, ip)
    IN  [st1 EXCEPT ![i].total_duration = @ + duration_seconds,
                    ![i].last_seen = t]

\* sorted(..., key=total_duration, reverse=True), one item at a time: the
\* sort is stable, so an item goes behind the items whose key is not smaller
InsertDesc(sorted, item) ==
    LET k == Cardinality({i \in 1..Len(sorted) :
                             sorted[i].total_duration >= item.total_duration})
    IN  SubSeq(sorted, 1, k) \o <<item>> \o SubSeq(sorted, k + 1, Len(sorted))

RECURSIVE SortedDesc(_, _)
SortedDesc(items, sorted) ==
    IF items = <<>> THEN sorted
    ELSE SortedDesc(Tail(items), InsertDesc(sorted, Head(items)))

\* A sort that puts an item in front of the items of the same duration.
InsertDescTiesFirst(sorted, item) ==
    LET k == Cardinality({i \in 1..Len(sorted) :
                             sorted[i].total_duration > item.total_duration})
    IN  SubSeq(sorted, 1, k) \o <<item>> \o SubSeq(sorted, k + 1, Len(sorted))

RECURSIVE SortedDescTiesFirst(_, _)
SortedDescTiesFirst(items, sorted) ==
    IF items = <<>> THEN sorted
    ELSE SortedDescTiesFirst(Tail(items), InsertDescTiesFirst(sorted, Head(items)))

\* sorted_clients[:limit], for a limit that is not negative
Slice(seq, limit) == SubSeq(seq, 1, IF limit < Len(seq) THEN limit ELSE Len(seq))

\* A leaderboard whose sort is not stable.
get_leaderboard_ties_first(st, limit) == Slice(SortedDescTiesFirst(st, <<>>), limit)

\* StatsManager.get_leaderboard
get_leaderboard(st, limit) == Slice(SortedDesc(st, <<>>), limit)

\* A save without its try/except: a failure leaves save_stats as an exception.
save_stats_uncaught(dk, st, outcome) ==
    [disk   |-> IF outcome = "ok" THEN [whole |-> TRUE, doc |-> st]
                ELSE IF outcome = "open_failed" THEN dk
                ELSE [whole |-> FALSE, doc |-> <<>>],
     raised |-> outcome # "ok"]

\* StatsManager.save_stats: open(STATS_FILE, 'w') and json.dump inside
\* try/except Exception.  outcome is what the file system does: "ok", or
\* "open_failed" (open raises, the file is untouched), or "write_failed"
\* (the file was truncated by open and the dump did not complete).
save_stats(dk, st, outcome) ==
    [disk   |-> IF outcome = "ok" THEN [whole |-> TRUE, doc |-> st]
                ELSE IF outcome = "open_failed" THEN dk
                ELSE [whole |-> FALSE, doc |-> <<>>],
     raised |-> FALSE]

\* The file after the calls update_client(ip, delta) made at time t, each
\* followed by its save_stats; outcomes[i] is the outcome of the i-th save.
\* raised tells whether a save let an exception out, and synced[i] whether
\* the file held the store when the i-th call returned.
RECURSIVE WriteThrough(_, _, _, _, _)
WriteThrough(dk, st, calls, t, outcomes) ==
    IF calls = <<>> THEN [disk |-> dk, stats |-> st, raised |-> FALSE, synced |-> <<>>]
    ELSE LET st1   == update_client(st, Head(calls).ip, Head(calls).delta, t)
             saved == save_stats(dk, st1, Head(outcomes))
             same  == saved.disk = [whole |-> TRUE, doc |-> st1]
         IN  IF saved.raised
             THEN [disk |-> saved.disk, stats |-> st1, raised |-> TRUE,
                   synced |-> <<same>>]
             ELSE LET rest == WriteThrough(saved.disk, st1, Tail(calls), t,
                                           Tail(outcomes))
                  IN  [rest EXCEPT !.synced = <<same>> \o @]

\* the outcomes n saves may have
WriteOutcomes(n, kinds) == [1..n -> kinds]

\* A webhook call without its try/except.
send_discord_webhook_uncaught(outcome) ==
    [delivered |-> outcome = "ok", raised |-> outcome # "ok"]

\* send_discord_webhook: requests.post and raise_for_status inside
\* try/except Exception.  outcome is "ok" or "failed".
send_discord_webhook(outcome) ==
    [delivered |-> outcome = "ok", raised |-> FALSE]

\* main, lines 399-402: the IP of each client address
ClientIp(client) == SplitFirst(client)

current_client_ips(clients) == {ClientIp(clients[i]) : i \in 1..Len(clients)}

\* main, lines 406-408: for ip in new_ips: client_sessions[ip] = loop_time
OpenSessions(sessions, order, loop_time) ==
    sessions \o [i \in 1..Len(order) |-> [ip |-> order[i], start |-> loop_time]]

Pop(sessions, ip) == SelectSeq(sessions, LAMBDA e : e.ip # ip)

\* A close that measures up to the last poll that saw the client, one poll
\* interval before the poll that misses it.
RECURSIVE CloseSessionsToLastSeen(_, _, _, _, _)
CloseSessionsToLastSeen(sessions, st, calls, order, loop_time) ==
    IF order = <<>> THEN [sessions |-> sessions, stats |-> st, calls |-> calls]
    ELSE LET ip == Head(order)
             start_time == sessions[IndexOf(sessions, ip)].start
             duration == (loop_time - 5) - start_time
         IN  CloseSessionsToLastSeen(Pop(sessions, ip),
                                     update_client(st, ip, duration, loop_time),
                                     Append(calls, [ip |-> ip, delta |-> duration]),
                                     Tail(order), loop_time)

\* main, lines 410-415: for ip in left_ips: pop, duration, update_client.
\* calls lists the (ip, delta) pairs handed to update_client.
RECURSIVE CloseSessions(_, _, _, _, _)
CloseSessions(sessions, st, calls, order, loop_time) ==
    IF order = <<>> THEN [sessions |-> sessions, stats |-> st, calls |-> calls]
    ELSE LET ip == Head(order)
             start_time == sessions[IndexOf(sessions, ip)].start
             duration == loop_time - start_time
         IN  CloseSessions(Pop(sessions, ip),
                           update_client(st, ip, duration, loop_time),
                           Append(calls, [ip |-> ip, delta |-> duration]),
                           Tail(order), loop_time)

\* A flush that records the elapsed time and does not restart the clock.
RECURSIVE FlushNoReset(_, _, _, _, _)
FlushNoReset(sessions, st, calls, i, flush_time) ==
    IF i > Len(sessions) THEN [sessions |-> sessions, stats |-> st, calls |-> calls]
    ELSE LET ip == sessions[i].ip
             session_dur == flush_time - sessions[i].start
         IN  IF session_dur > 0
             THEN FlushNoReset(sessions,
                               update_client(st, ip, session_dur, flush_time),
                               Append(calls, [ip |-> ip, delta |-> session_dur]),
                               i + 1, flush_time)
             ELSE FlushNoReset(sessions, st, calls, i + 1, flush_time)

\* A flush that closes the sessions it records.
RECURSIVE FlushPops(_, _, _, _, _)
FlushPops(sessions, st, calls, i, flush_time) ==
    IF i > Len(sessions) THEN [sessions |-> sessions, stats |-> st, calls |-> calls]
    ELSE LET ip == sessions[i].ip
             session_dur == flush_time - sessions[i].start
         IN  IF session_dur > 0
             THEN FlushPops(Pop(sessions, ip),
                            update_client(st, ip, session_dur, flush_time),
                            Append(calls, [ip |-> ip, delta |-> session_dur]),
                            i, flush_time)
             ELSE FlushPops(sessions, st, calls, i + 1, flush_time)

\* A flush that also records the sessions with no time elapsed.
RECURSIVE FlushZeroToo(_, _, _, _, _)
FlushZeroToo(sessions, st, calls, i, flush_time) ==
    IF i > Len(sessions) THEN [sessions |-> sessions, stats |-> st, calls |-> calls]
    ELSE LET ip == sessions[i].ip
             session_dur == flush_time - sessions[i].start
         IN  IF session_dur >= 0
             THEN FlushZeroToo([sessions EXCEPT ![i].start = flush_time],
                               update_client(st, ip, session_dur, flush_time),
                               Append(calls, [ip |-> ip, delta |-> session_dur]),
                               i + 1, flush_time)
             ELSE FlushZeroToo(sessions, st, calls, i + 1, flush_time)

\* main, lines 598-604: the flush of the open sessions, from entry i on
RECURSIVE Flush(_, _, _, _, _)
Flush(sessions, st, calls, i, flush_time) ==
    IF i > Len(sessions) THEN [sessions |-> sessions, stats |-> st, calls |-> calls]
    ELSE LET ip == sessions[i].ip
             session_dur == flush_time - sessions[i].start
         IN  IF session_dur > 0
             THEN Flush([sessions EXCEPT ![i].start = flush_time],
                        update_client(st, ip, session_dur, flush_time),
                        Append(calls, [ip |-> ip, delta |-> session_dur]),
                        i + 1, flush_time)
             ELSE Flush(sessions, st, calls, i + 1, flush_time)

\* A status that needs more than one target match to be connected.
current_status_above_one(connections) ==
    IF Len(connections) > 1 THEN "connected" ELSE "disconnected"

\* main, lines 420-422
current_status(connections) == IF Len(connections) > 0 THEN "connected" ELSE "disconnected"

-----------------------------------------------------------------------------
(* The geolocation cache and the notification fields                        *)

\* the records get_ip_info returns, by their country
Info(country) == [country |-> country]

\* get_ip_info, line 143: the prefixes answered without a lookup
StaticPrefix(ip) ==
    \/ StartsWith(ip, <<"1", "2", "7", ".">>)
    \/ StartsWith(ip, <<"1", "9", "2", ".", "1", "6", "8", ".">>)
    \/ StartsWith(ip, <<"1", "0", ".">>)
    \/ ip = <<":", ":", "1">>

\* get_ip_info(ip).  outcome is what the lookup service does if it is asked:
\* "failed" (an exception, a status other than 200, or a reply that is not a
\* success), or the country of the record it returns.  called tells whether
\* requests.get was issued, saved whether save_ip_cache was called.
get_ip_info(cache, ip, outcome) ==
    IF ip \in DOMAIN cache
    THEN [info |-> cache[ip], cache |-> cache, called |-> FALSE, saved |-> FALSE]
    ELSE IF StaticPrefix(ip)
    THEN [info |-> Info("Localhost"), cache |-> cache, called |-> FALSE, saved |-> FALSE]
    ELSE IF outcome # "failed"
    THEN [info |-> Info(outcome),
          cache |-> [k \in DOMAIN cache \cup {ip} |->
                        IF k = ip THEN Info(outcome) ELSE cache[k]],
          called |-> TRUE, saved |-> TRUE]
    ELSE [info |-> Info("Unknown"),
          cache |-> [k \in DOMAIN cache \cup {ip} |->
                        IF k = ip THEN Info("Unknown") ELSE cache[k]],
          called |-> TRUE, saved |-> FALSE]

\* the keys of target_groups / client_groups: the part of each address
\* before its last colon, in the order of first appearance
RECURSIVE Groups(_, _)
Groups(addrs, keys) ==
    IF addrs = <<>> THEN keys
    ELSE LET k == RSplitHead(Head(addrs))
         IN  Groups(Tail(addrs), IF InSeq(k, keys) THEN keys ELSE Append(keys, k))

\* list(...)[:5]
FirstFive(seq) == SubSeq(seq, 1, IF Len(seq) < 5 THEN Len(seq) ELSE 5)

Field(name, ip, country) == [name |-> name, ip |-> ip, country |-> country]

\* main, lines 446-487 and 502-548: one field per group, each decorated by
\* get_ip_info; outcomes[i] is the outcome of the i-th group's lookup
RECURSIVE GroupFields(_, _, _, _, _)
GroupFields(name, ips, cache, outcomes, list) ==
    IF ips = <<>> THEN [cache |-> cache, fields |-> list]
    ELSE LET r == get_ip_info(cache, Head(ips), Head(outcomes))
         IN  GroupFields(name, Tail(ips), r.cache, Tail(outcomes),
                         Append(list, Field(name, Head(ips), r.info.country)))

\* main, lines 431-583: the fields of the "connected" notification
ConnectedFields(connections, clients, cache, outcomes) ==
    LET targets == FirstFive(Groups([i \in 1..Len(connections) |-> connections[i].remote],
                                    <<>>))
        cgroups == Groups(clients, <<>>)
        t == GroupFields("target", targets, cache,
                         SubSeq(outcomes, 1, Len(targets)), <<>>)
        c == GroupFields("client", FirstFive(cgroups), t.cache,
                         SubSeq(outcomes, Len(targets) + 1, Len(outcomes)), t.fields)
        none == IF cgroups = <<>> THEN <<Field("noclient", <<>>, "")>> ELSE <<>>
    IN  [cache |-> c.cache,
         fields |-> c.fields \o none \o <<Field("system", <<>>, "")>>]

\* the number of get_ip_info calls of ConnectedFields
ConnectedLookups(connections, clients) ==
    Len(FirstFive(Groups([i \in 1..Len(connections) |-> connections[i].remote], <<>>)))
    + Len(FirstFive(Groups(clients, <<>>)))

\* A disconnect branch that starts its field list afresh.
DisconnectedFieldsFresh(fs, board) ==
    [raised |-> FALSE,
     fields |-> IF board # <<>> THEN <<Field("leaderboard", <<>>, "")>> ELSE <<>>]

\* main, lines 607-640, with leaderboard_show_country false: the list bound
\* to fields, with the leaderboard field appended when lb_text is not empty.
\* Reading fields while it is unbound raises UnboundLocalError.
DisconnectedFields(fs, board) ==
    [raised |-> ~fs.bound,
     fields |-> IF board # <<>> THEN fs.list \o <<Field("leaderboard", <<>>, "")>>
                ELSE fs.list]

-----------------------------------------------------------------------------
(* Shutdown                                                                 *)

\* A handler that, like the flush, leaves out the sessions with no time to
\* record.
RECURSIVE ShutdownFlushPositive(_, _, _, _, _)
ShutdownFlushPositive(sessions, st, calls, i, t) ==
    IF i > Len(sessions) THEN [sessions |-> sessions, stats |-> st, calls |-> calls]
    ELSE LET ip == sessions[i].ip
             duration == t - sessions[i].start
         IN  IF duration > 0
             THEN ShutdownFlushPositive(sessions, update_client(st, ip, duration, t),
                                        Append(calls, [ip |-> ip, delta |-> duration]),
                                        i + 1, t)
             ELSE ShutdownFlushPositive(sessions, st, calls, i + 1, t)

\* main, lines 647-653: the KeyboardInterrupt handler at time t, from entry i
\* on: every open session is recorded up to t; nothing is reset or popped
RECURSIVE ShutdownFlush(_, _, _, _, _)
ShutdownFlush(sessions, st, calls, i, t) ==
    IF i > Len(sessions) THEN [sessions |-> sessions, stats |-> st, calls |-> calls]
    ELSE LET ip == sessions[i].ip
             duration == t - sessions[i].start
         IN  ShutdownFlush(sessions, update_client(st, ip, duration, t),
                           Append(calls, [ip |-> ip, delta |-> duration]),
                           i + 1, t)

\* What an iteration has done when KeyboardInterrupt is raised in it: the
\* sessions and the store at that point, the update_client calls made so
\* far, and the sessions whose start time a flush has reset.
Cut(at, sessions, st, track_calls, flush_calls, reset) ==
    [at |-> at, sessions |-> sessions, stats |-> st, track_calls |-> track_calls,
     flush_calls |-> flush_calls, reset |-> reset]

\* main, lines 406-415, interrupted after the sessions of the new IPs are
\* opened: between two left IPs ("opened", "closed"), or between the pop
\* and the update_client of one ("popped")
TrackCuts(sessions, st, left_order, loop_time) ==
    LET n == Len(left_order)
        c(k) == CloseSessions(sessions, st, <<>>, SubSeq(left_order, 1, k), loop_time)
    IN  {Cut(IF k = 0 THEN "opened" ELSE "closed",
             c(k).sessions, c(k).stats, c(k).calls, <<>>, {}) : k \in 0..n}
        \cup
        {Cut("popped", Pop(c(k).sessions, left_order[k + 1]),
             c(k).stats, c(k).calls, <<>>, {}) : k \in 0..(n - 1)}

\* main, lines 598-604, after the first k sessions
FlushPrefix(sessions, st, k, flush_time) ==
    LET f == Flush(SubSeq(sessions, 1, k), st, <<>>, 1, flush_time)
    IN  [sessions |-> f.sessions \o SubSeq(sessions, k + 1, Len(sessions)),
         stats |-> f.stats, calls |-> f.calls]

\* main, lines 598-604, interrupted between two sessions ("reset"), or
\* between the update_client of one and the assignment of its new start
\* time ("recorded")
FlushCuts(track, flush_time) ==
    LET n == Len(track.sessions)
        f(k) == FlushPrefix(track.sessions, track.stats, k, flush_time)
        ResetIps(k) == {f(k).calls[j].ip : j \in 1..Len(f(k).calls)}
        dur(k) == flush_time - track.sessions[k].start
    IN  {Cut("reset", f(k).sessions, f(k).stats, track.calls, f(k).calls, ResetIps(k))
            : k \in 1..n}
        \cup
        {Cut("recorded", f(k).sessions,
             update_client(f(k).stats, track.sessions[k + 1].ip, dur(k + 1), flush_time),
             track.calls,
             Append(f(k).calls, [ip |-> track.sessions[k + 1].ip, delta |-> dur(k + 1)]),
             ResetIps(k))
            : k \in {j \in 0..(n - 1) : dur(j + 1) > 0}}

-----------------------------------------------------------------------------
(* Bounds and the inputs the model draws from                               *)

MaxTime     == 11  \* no poll of Spec starts after this second
MaxTimeLong == 21  \* no poll of SpecLong starts after this second
MaxDelay    == 1   \* seconds one loop iteration may take on top of its sleep
MaxConns    == 3   \* sockets in a table of the matcher specification
MaxRecords  == 4   \* records in a store of the leaderboard specification
MaxLimit    == 5   \* the largest limit asked of get_leaderboard

\* config["check_interval"], by default
Interval == 5

IpClientA == <<"9", ".", "9", ".", "9", ".", "9">>
IpClientB == <<"1", ".", "2", ".", "3", ".", "4">>
IpClient6 == <<"2", "0", "0", "1", ":", "d", "b", "8", ":", ":", "7">>
IpTargetA == <<"8", ".", "8", ".", "8", ".", "8">>
IpTargetB == <<"8", ".", "8", ".", "4", ".", "4">>
IpPrivate == <<"1", "0", ".", "0", ".", "0", ".", "5">>
IpLoop10  == <<"1", "2", "7", ".", "0", ".", "0", ".", "1", "0">>
IpLocal   == <<"1", "7", "2", ".", "1", "7", ".", "0", ".", "2">>

Est(lport, rip, rport) == Conn("ESTABLISHED", IpLocal, lport, rip, rport, "77/danted")

ClientA  == Est(1080, IpClientA, 5000)
ClientA2 == Est(1080, IpClientA, 5001)
ClientB  == Est(1080, IpClientB, 5000)
Client6  == Est(1080, IpClient6, 5000)
TargetA  == Est(1081, IpTargetA, 8080)
TargetB  == Est(1082, IpTargetB, 8080)

\* the target-port lists of the configurations
TargetsStr  == <<S(<<"8", "0", "8", "0">>)>>
TargetsInt  == <<I(8080)>>
TargetsStar == <<Star>>
TargetsBad  == <<S(<<"h", "t", "t", "p">>), I(8080)>>

TargetsStarPorts == <<I(9000), Star>>

TargetLists == {TargetsStr, TargetsInt, TargetsStar, TargetsStarPorts, TargetsBad}

ContainerNames == {"", "socks5"}

\* the configurations of the polling-loop specifications
EngineConfigs == {<<"", TargetsStr>>, <<"", TargetsInt>>,
                  <<"socks5", TargetsStr>>, <<"socks5", TargetsBad>>}

\* the inputs of a poll: a socket table, and whether the listing call
\* succeeds (docker exec / psutil.net_connections)
EngineTables == {<<>>,
                 <<ClientA>>,
                 <<TargetA>>,
                 <<ClientA, TargetA>>,
                 <<ClientA, TargetB>>,
                 <<ClientA, ClientA2, TargetA>>,
                 <<ClientB>>,
                 <<ClientA, ClientB>>,
                 <<ClientB, ClientA, TargetA>>,
                 <<Client6>>}

EngineInputs == {<<t, TRUE>> : t \in EngineTables} \cup {<<<<ClientA, TargetA>>, FALSE>>}

LongInputs == {<<t, TRUE>> : t \in {<<>>, <<ClientB>>, <<ClientB, TargetA>>,
                                     <<ClientA, TargetA>>}}

\* the sockets of the matcher specification
MatchConns == {ClientA,
               Est(1080, IpClientA, 8080),
               TargetA,
               Est(1082, IpTargetA, 8080),
               Est(1083, IpPrivate, 9000),
               Est(1084, Loopback4, 9000),
               Est(1085, IpLoop10, 9000),
               Est(1086, Loopback6, 9000),
               Est(1088, IpTargetB, 0),
               Conn("TIME_WAIT", IpLocal, 1087, IpTargetA, 8080, "Unknown"),
               Conn("LISTEN", IpLocal, 1080, <<>>, 0, "77/danted")}

MatchTables == UNION {{t \in [1..n -> MatchConns] : \A i, j \in 1..n : i # j => t[i] # t[j]}
                      : n \in 0..MaxConns}

MatchInputs == MatchTables \X BOOLEAN

-----------------------------------------------------------------------------
(* The polling loop of main()                                               *)

NoEvent == [kind |-> "init", loop_time |-> 0, flush_time |-> 0,
            prev_status |-> "disconnected", prev_clients |-> <<>>,
            prev_connections |-> <<>>, prev_sessions |-> <<>>,
            opened |-> {}, closed |-> {}, tracked |-> <<>>,
            track_calls |-> <<>>, flush_calls |-> <<>>, notified |-> "none",
            prev_stats |-> <<>>, prev_start |-> None,
            prev_disk |-> [whole |-> TRUE, doc |-> <<>>],
            writes |-> <<>>, synced |-> <<>>, webhook |-> "none", last_hook |-> "none",
            cut |-> "none", shutdown_calls |-> <<>>, ended |-> {},
            limit |-> 0, board |-> <<>>,
            sent_fields |-> <<>>, prev_fields |-> [bound |-> FALSE, list |-> <<>>],
            connected_fields |-> <<>>, prev_cache |-> <<>>,
            ip |-> <<>>, info |-> Info(""), called |-> FALSE]

\* the outcome of the last webhook call made so far, "none" before the first
LastHook == IF ev.webhook # "none" THEN ev.webhook ELSE ev.last_hook

\* A loop that starts out believing the target is connected.
StartConnected ==
    /\ socks_port = 1080
    /\ now = 0
    /\ client_sessions = <<>>
    /\ last_status = "connected"
    /\ connection_start_time = None
    /\ stats = <<>>
    /\ active_connections = <<>>
    /\ active_clients = <<>>
    /\ table = <<>>
    /\ cmd_ok = TRUE
    /\ ev = NoEvent
    /\ notifications = <<>>
    /\ fields = [bound |-> FALSE, list |-> <<>>]
    /\ ip_country_cache = <<>>
    /\ pc = "running"
    /\ disk = [whole |-> TRUE, doc |-> <<>>]
    /\ acct = <<>>

\* main, lines 381-384: the state before the first poll
Start ==
    /\ socks_port = 1080
    /\ now = 0
    /\ client_sessions = <<>>
    /\ last_status = "disconnected"
    /\ connection_start_time = None
    /\ stats = <<>>
    /\ active_connections = <<>>
    /\ active_clients = <<>>
    /\ table = <<>>
    /\ cmd_ok = TRUE
    /\ ev = NoEvent
    /\ notifications = <<>>
    /\ fields = [bound |-> FALSE, list |-> <<>>]
    /\ ip_country_cache = <<>>
    /\ pc = "running"
    /\ disk = [whole |-> TRUE, doc |-> <<>>]
    /\ acct = <<>>

Init ==
    /\ Start
    /\ \E c \in EngineConfigs : container_name = c[1] /\ target_ports = c[2]

InitMatch == Start /\ container_name \in ContainerNames /\ target_ports \in TargetLists

\* the sum of the deltas of the calls made for ip
RECURSIVE DeltaSum(_, _)
DeltaSum(calls, ip) ==
    IF calls = <<>> THEN 0
    ELSE (IF Head(calls).ip = ip THEN Head(calls).delta ELSE 0) + DeltaSum(Tail(calls), ip)

\* the number of calls made for ip
CallCount(calls, ip) == Cardinality({i \in 1..Len(calls) : calls[i].ip = ip})

\* main, lines 390-394: check_docker_connections returned (None, None):
\* sleep one second and poll again
SkipPoll(tbl, ok, delays) ==
    /\ pc = "running"
    /\ PollResult(container_name, ok, tbl, target_ports, socks_port).nodata
    /\ \E d \in delays :
          /\ now' = now + d + 1
          /\ acct' = [ip \in DOMAIN acct |-> [acct[ip] EXCEPT !.extra = @ + d + 1]]
    /\ table' = tbl
    /\ cmd_ok' = ok
    /\ ev' = [NoEvent EXCEPT !.kind = "skipped", !.loop_time = now,
                             !.prev_status = last_status,
                             !.prev_clients = active_clients,
                             !.prev_connections = active_connections,
                             !.prev_sessions = client_sessions,
                             !.tracked = client_sessions,
                             !.prev_stats = stats,
                             !.prev_start = connection_start_time,
                             !.prev_disk = disk,
                             !.last_hook = LastHook,
                             !.prev_fields = fields,
                             !.connected_fields = ev.connected_fields,
                             !.prev_cache = ip_country_cache]
    /\ UNCHANGED <<config, client_sessions, last_status, connection_start_time, stats,
                   active_connections, active_clients, notifications, fields,
                   ip_country_cache, pc, disk>>

\* main, lines 598-604, or nothing when the iteration does not flush
FlushIf(flushes, sessions, st, flush_time) ==
    IF flushes THEN Flush(sessions, st, <<>>, 1, flush_time)
    ELSE [sessions |-> sessions, stats |-> st, calls |-> <<>>]

\* A flush at every poll that finds no target.
FlushesWhileDisconnected(status, last) == status = "disconnected"

\* main, line 424 and 590: the branch that flushes
Flushes(status, last) == status # last /\ status = "disconnected"

\* main, lines 388-645: one iteration of the loop that completes its poll.
\* loop_time is taken first; d seconds (one of delays) pass until the
\* iteration reads the clock again (connection_start_time, flush_time);
\* then it sleeps.  faults.writes and faults.hooks are the outcomes the
\* iteration's saves and its webhook call may have.
CompletePoll(tbl, ok, delays, faults) ==
    \E result \in {PollResult(container_name, ok, tbl, target_ports, socks_port)} :
    \E d \in delays :
    LET loop_time == now
        current   == current_client_ips(result.clients)
        tracked   == Keys(client_sessions)
        new_ips   == current \ tracked
        left_ips  == tracked \ current
        status    == current_status(result.found)
        changed   == status # last_status
        connects  == changed /\ status = "connected"
        t1        == loop_time + d
    IN  /\ pc = "running"
        /\ ~result.nodata
        /\ \E new_order \in Orders(new_ips), left_order \in Orders(left_ips) :
           \E track \in {CloseSessions(OpenSessions(client_sessions, new_order, loop_time),
                                       stats, <<>>, left_order, loop_time)} :
           \E flush \in {FlushIf(Flushes(status, last_status),
                                 track.sessions, track.stats, t1)} :
           \E wt \in WriteOutcomes(Len(track.calls), faults.writes),
              wf \in WriteOutcomes(Len(flush.calls), faults.writes),
              wh \in (IF changed THEN faults.hooks ELSE {"none"}) :
           \E w1 \in {WriteThrough(disk, stats, track.calls, loop_time, wt)} :
           \E w2 \in {WriteThrough(w1.disk, w1.stats, flush.calls, t1, wf)} :
           \E lo \in [1..(IF connects
                          THEN ConnectedLookups(result.found, result.clients) ELSE 0)
                      -> faults.lookups] :
           \E built \in {IF connects
                         THEN ConnectedFields(result.found, result.clients,
                                              ip_country_cache, lo)
                         ELSE [cache |-> ip_country_cache, fields |-> <<>>]} :
           \E gone \in {IF Flushes(status, last_status)
                        THEN DisconnectedFields(fields, get_leaderboard(w2.stats, 5))
                        ELSE [raised |-> FALSE, fields |-> <<>>]} :
             LET calls  == track.calls \o flush.calls
                 raised == w1.raised \/ w2.raised \/ gone.raised
                           \/ (changed /\ send_discord_webhook(wh).raised)
             IN  /\ client_sessions' = flush.sessions
                 /\ ip_country_cache' = built.cache
                 /\ fields' = IF connects THEN [bound |-> TRUE, list |-> built.fields]
                              ELSE IF Flushes(status, last_status) /\ ~gone.raised
                              THEN [bound |-> TRUE, list |-> gone.fields]
                              ELSE fields
                 /\ stats' = w2.stats
                 /\ disk' = w2.disk
                 /\ pc' = IF raised THEN "crashed" ELSE "running"
                 /\ last_status' = IF raised THEN last_status ELSE status
                 /\ acct' = [ip \in Keys(flush.sessions) |->
                               IF ip \in tracked
                               THEN [acct[ip] EXCEPT
                                       !.sum = @ + DeltaSum(calls, ip),
                                       !.flushes = @ + CallCount(flush.calls, ip),
                                       !.reset = IF CallCount(flush.calls, ip) > 0
                                                 THEN t1 ELSE @,
                                       !.polls = @ + 1,
                                       !.extra = @ + d]
                               ELSE [open |-> loop_time,
                                     sum |-> DeltaSum(calls, ip),
                                     flushes |-> CallCount(flush.calls, ip),
                                     reset |-> IF CallCount(flush.calls, ip) > 0
                                               THEN t1 ELSE loop_time,
                                     polls |-> 1,
                                     extra |-> d]]
                 /\ ev' = [kind |-> "poll", loop_time |-> loop_time, flush_time |-> t1,
                           prev_status |-> last_status,
                           prev_clients |-> active_clients,
                           prev_connections |-> active_connections,
                           prev_sessions |-> client_sessions,
                           opened |-> new_ips,
                           closed |-> {[ip |-> ip, open |-> acct[ip].open,
                                        close |-> loop_time,
                                        sum |-> acct[ip].sum + DeltaSum(calls, ip),
                                        last |-> DeltaSum(track.calls, ip),
                                        flushes |-> acct[ip].flushes,
                                        polls |-> acct[ip].polls,
                                        extra |-> acct[ip].extra]
                                       : ip \in left_ips},
                           tracked |-> track.sessions,
                           track_calls |-> track.calls,
                           flush_calls |-> flush.calls,
                           notified |-> IF changed THEN status ELSE "none",
                           prev_stats |-> stats,
                           prev_start |-> connection_start_time,
                           prev_disk |-> disk,
                           writes |-> wt \o wf,
                           synced |-> w1.synced \o w2.synced,
                           webhook |-> wh,
                           last_hook |-> LastHook,
                           cut |-> "none",
                           shutdown_calls |-> <<>>,
                           ended |-> {},
                           limit |-> IF Flushes(status, last_status) THEN 5 ELSE 0,
                           board |-> IF Flushes(status, last_status)
                                     THEN get_leaderboard(w2.stats, 5) ELSE <<>>,
                           sent_fields |-> IF connects THEN built.fields
                                           ELSE gone.fields,
                           prev_fields |-> fields,
                           connected_fields |-> IF connects THEN built.fields
                                                ELSE ev.connected_fields,
                           prev_cache |-> ip_country_cache,
                           ip |-> <<>>, info |-> Info(""), called |-> FALSE]
        /\ active_connections' = result.found
        /\ active_clients' = result.clients
        /\ connection_start_time' = IF ~changed THEN connection_start_time
                                    ELSE IF status = "connected" THEN t1 ELSE None
        /\ notifications' = IF changed THEN Append(notifications, status)
                            ELSE notifications
        /\ table' = tbl
        /\ cmd_ok' = ok
        /\ now' = t1 + Interval
        /\ UNCHANGED config

\* main, lines 386-653: KeyboardInterrupt is raised in the iteration that
\* starts now, d seconds (one of delays) into it, and the handler of lines
\* 647-653 runs.  The exception is raised wherever the main thread is:
\* asleep or polling ("asleep", nothing of the iteration is done), or at one
\* of the cut points of the tracker and of the flush.  An interrupt later in
\* the iteration is the interrupt of the next iteration's "asleep".
Interrupt(tbl, ok, delays, faults) ==
    \E result \in {PollResult(container_name, ok, tbl, target_ports, socks_port)} :
    \E d \in delays :
    LET loop_time == now
        current   == current_client_ips(result.clients)
        tracked   == Keys(client_sessions)
        new_ips   == current \ tracked
        left_ips  == tracked \ current
        status    == current_status(result.found)
        t1        == loop_time + d
        asleep    == Cut("asleep", client_sessions, stats, <<>>, <<>>, {})
    IN  /\ pc = "running"
        /\ \E new_order \in Orders(new_ips), left_order \in Orders(left_ips) :
           \E track \in {CloseSessions(OpenSessions(client_sessions, new_order, loop_time),
                                       stats, <<>>, left_order, loop_time)} :
           \E cut \in {asleep} \cup
                      (IF result.nodata THEN {}
                       ELSE TrackCuts(OpenSessions(client_sessions, new_order, loop_time),
                                      stats, left_order, loop_time)
                            \cup (IF Flushes(status, last_status)
                                  THEN FlushCuts(track, t1) ELSE {})) :
           \E down \in {ShutdownFlush(cut.sessions, cut.stats, <<>>, 1, t1)} :
           \E wt \in WriteOutcomes(Len(cut.track_calls), faults.writes),
              wf \in WriteOutcomes(Len(cut.flush_calls), faults.writes),
              wd \in WriteOutcomes(Len(down.calls), faults.writes) :
           \E w1 \in {WriteThrough(disk, stats, cut.track_calls, loop_time, wt)} :
           \E w2 \in {WriteThrough(w1.disk, w1.stats, cut.flush_calls, t1, wf)} :
           \E w3 \in {WriteThrough(w2.disk, w2.stats, down.calls, t1, wd)} :
             LET calls == cut.track_calls \o cut.flush_calls \o down.calls
                 polled == cut.at # "asleep"
                 Open(ip)  == IF ip \in tracked THEN acct[ip].open ELSE loop_time
                 Reset(ip) == IF ip \in cut.reset THEN t1
                              ELSE IF ip \in tracked THEN acct[ip].reset ELSE loop_time
                 Sum(ip)   == (IF ip \in tracked THEN acct[ip].sum ELSE 0)
                              + DeltaSum(calls, ip)
             IN  /\ client_sessions' = cut.sessions
                 /\ stats' = w3.stats
                 /\ disk' = w3.disk
                 /\ pc' = IF w1.raised \/ w2.raised \/ w3.raised
                          THEN "crashed" ELSE "stopped"
                 /\ acct' = [ip \in Keys(cut.sessions) |->
                               [open |-> Open(ip), sum |-> Sum(ip),
                                flushes |-> (IF ip \in tracked THEN acct[ip].flushes ELSE 0)
                                            + CallCount(cut.flush_calls, ip),
                                reset |-> Reset(ip),
                                polls |-> IF ip \in tracked THEN acct[ip].polls ELSE 0,
                                extra |-> (IF ip \in tracked THEN acct[ip].extra ELSE 0) + d]]
                 /\ ev' = [NoEvent EXCEPT
                             !.kind = "shutdown", !.loop_time = loop_time,
                             !.flush_time = t1,
                             !.prev_status = last_status,
                             !.prev_clients = active_clients,
                             !.prev_connections = active_connections,
                             !.prev_sessions = client_sessions,
                             !.opened = IF polled THEN new_ips ELSE {},
                             !.tracked = cut.sessions,
                             !.track_calls = cut.track_calls,
                             !.flush_calls = cut.flush_calls,
                             !.prev_stats = stats,
                             !.prev_start = connection_start_time,
                             !.prev_disk = disk,
                             !.writes = wt \o wf \o wd,
                             !.synced = w1.synced \o w2.synced \o w3.synced,
                             !.last_hook = LastHook,
                             !.prev_fields = fields,
                             !.connected_fields = ev.connected_fields,
                             !.prev_cache = ip_country_cache,
                             !.cut = cut.at,
                             !.shutdown_calls = down.calls,
                             !.ended = {[ip |-> ip, open |-> Open(ip),
                                         end |-> IF ip \in Keys(cut.sessions)
                                                 THEN t1 ELSE loop_time,
                                         sum |-> Sum(ip)]
                                        : ip \in tracked \cup Keys(cut.sessions)}]
                 /\ active_connections' = IF polled THEN result.found
                                          ELSE active_connections
                 /\ active_clients' = IF polled THEN result.clients ELSE active_clients
        /\ table' = tbl
        /\ cmd_ok' = ok
        /\ now' = t1
        /\ UNCHANGED <<config, last_status, connection_start_time, notifications,
                       fields, ip_country_cache>>

\* the iterations in which every save and every webhook call succeeds
NoFaults == [writes |-> {"ok"}, hooks |-> {"ok"}, lookups |-> {"DE"}]

Completed ==
    /\ now <= MaxTime
    /\ \E in \in EngineInputs : CompletePoll(in[1], in[2], 0..MaxDelay, NoFaults)

Skipped ==
    /\ now <= MaxTime
    /\ \E in \in EngineInputs : SkipPoll(in[1], in[2], 0..MaxDelay)

Next == Completed \/ Skipped

Spec == Init /\ [][Next]_vars

\* The loop over more polls, of fewer tables
CompletedLong ==
    /\ now <= MaxTimeLong
    /\ \E in \in LongInputs : CompletePoll(in[1], in[2], 0..MaxDelay, NoFaults)

SkippedLong ==
    /\ now <= MaxTimeLong
    /\ \E in \in LongInputs : SkipPoll(in[1], in[2], 0..MaxDelay)

NextLong == CompletedLong \/ SkippedLong

SpecLong == Init /\ [][NextLong]_vars

\* The loop in its environment: saves and webhook calls may fail, and the
\* process may be interrupted
EnvTables == {<<>>, <<ClientA>>, <<ClientA, ClientB>>, <<ClientA, ClientB, TargetA>>}

EnvInputs == {<<t, TRUE>> : t \in EnvTables}

EnvFaults == [writes  |-> {"ok", "open_failed", "write_failed"},
              hooks   |-> {"ok", "failed"},
              lookups |-> {"DE"}]

EnvConfigs == {<<"socks5", TargetsStr>>, <<"socks5", TargetsBad>>}

InitEnv ==
    /\ Start
    /\ \E c \in EnvConfigs : container_name = c[1] /\ target_ports = c[2]

CompletedEnv ==
    /\ now <= MaxTime
    /\ \E in \in EnvInputs : CompletePoll(in[1], in[2], {0}, EnvFaults)

SkippedEnv ==
    /\ now <= MaxTime
    /\ \E in \in EnvInputs : SkipPoll(in[1], in[2], {0})

InterruptedEnv ==
    /\ now <= MaxTime
    /\ \E in \in EnvInputs : Interrupt(in[1], in[2], {0}, EnvFaults)

NextEnv == CompletedEnv \/ SkippedEnv \/ InterruptedEnv

SpecEnv == InitEnv /\ [][NextEnv]_vars

\* The leaderboard on its own: the store that StatsManager() loaded holds up
\* to MaxRecords records, in the file's order, and get_leaderboard is asked
\* for its first limit rows.
BoardIp(i) == <<"1", "0", ".", "0", ".", "0", ".">> \o Str(i)

BoardDurations == {10, 50, 75, 200}

BoardStores ==
    UNION {{[i \in 1..n |-> [ip |-> BoardIp(i), total_duration |-> d[i],
                             first_seen |-> 0, last_seen |-> 0]]
              : d \in [1..n -> BoardDurations]}
           : n \in 0..MaxRecords}

InitBoard ==
    /\ socks_port = 1080
    /\ container_name = ""
    /\ target_ports = TargetsStr
    /\ now = 0
    /\ client_sessions = <<>>
    /\ last_status = "disconnected"
    /\ connection_start_time = None
    /\ stats \in BoardStores
    /\ active_connections = <<>>
    /\ active_clients = <<>>
    /\ table = <<>>
    /\ cmd_ok = TRUE
    /\ ev = NoEvent
    /\ notifications = <<>>
    /\ fields = [bound |-> FALSE, list |-> <<>>]
    /\ ip_country_cache = <<>>
    /\ pc = "running"
    /\ disk = [whole |-> TRUE, doc |-> stats]
    /\ acct = <<>>

Leaderboard ==
    /\ pc = "running"
    /\ \E limit \in 0..MaxLimit :
          ev' = [NoEvent EXCEPT !.kind = "board", !.limit = limit,
                                !.prev_stats = stats,
                                !.board = get_leaderboard(stats, limit)]
    /\ UNCHANGED <<config, now, client_sessions, last_status, connection_start_time,
                   stats, active_connections, active_clients, table, cmd_ok,
                   notifications, fields, ip_country_cache, pc, disk, acct>>

NextBoard == Leaderboard

SpecBoard == InitBoard /\ [][NextBoard]_vars

\* The geolocation cache on its own: get_ip_info is called for one IP after
\* another, and the lookup service answers or fails.  The cache starts empty
\* or as load_ip_cache() read it from a file that an earlier run saved.
Ip192 == <<"1", "9", "2", ".", "1", "6", "8", ".", "1", ".", "7">>

GeoIps == {IpTargetA, IpClientA, IpLocal, IpPrivate, Ip192, Loopback4, Loopback6,
           IpLoop10}

GeoOutcomes == {"DE", "US", "failed"}

LoadedCaches == {<<>>, [k \in {IpTargetA} |-> Info("US")]}

InitGeo ==
    /\ socks_port = 1080
    /\ container_name = ""
    /\ target_ports = TargetsStr
    /\ now = 0
    /\ client_sessions = <<>>
    /\ last_status = "disconnected"
    /\ connection_start_time = None
    /\ stats = <<>>
    /\ active_connections = <<>>
    /\ active_clients = <<>>
    /\ table = <<>>
    /\ cmd_ok = TRUE
    /\ ev = NoEvent
    /\ notifications = <<>>
    /\ fields = [bound |-> FALSE, list |-> <<>>]
    /\ ip_country_cache \in LoadedCaches
    /\ pc = "running"
    /\ disk = [whole |-> TRUE, doc |-> <<>>]
    /\ acct = <<>>

LookUp ==
    /\ pc = "running"
    /\ \E ip \in GeoIps, outcome \in GeoOutcomes :
       \E r \in {get_ip_info(ip_country_cache, ip, outcome)} :
          /\ ip_country_cache' = r.cache
          /\ ev' = [NoEvent EXCEPT !.kind = "lookup", !.ip = ip, !.info = r.info,
                                   !.called = r.called,
                                   !.prev_cache = ip_country_cache]
    /\ UNCHANGED <<config, now, client_sessions, last_status, connection_start_time,
                   stats, active_connections, active_clients, table, cmd_ok,
                   notifications, fields, pc, disk, acct>>

NextGeo == LookUp

SpecGeo == InitGeo /\ [][NextGeo]_vars

\* The matchers on their own: one poll, from the initial state, of any table
\* of at most MaxConns sockets, under every configuration.
CompletedMatch ==
    /\ ev.kind = "init"
    /\ \E in \in MatchInputs : CompletePoll(in[1], in[2], {0}, NoFaults)

SkippedMatch ==
    /\ ev.kind = "init"
    /\ \E in \in MatchInputs : SkipPoll(in[1], in[2], {0})

NextMatch == CompletedMatch \/ SkippedMatch

SpecMatch == InitMatch /\ [][NextMatch]_vars

-----------------------------------------------------------------------------
(* Properties                                                               *)

Polled == ev.kind = "poll"

Established(c) == c.status = "ESTABLISHED"

\* the connection table entries the last poll could see
Seen == IF cmd_ok THEN {table[i] : i \in 1..Len(table)} ELSE {}

\* a socket of a proxy client: it is on the forwarding port, or its remote
\* address is one of the poll's client addresses
IsClientConn(c) ==
    \/ c.lport = socks_port
    \/ InSeq(AddrToken(c.rip, c.rport), active_clients)

\* the entries of the target-match list for the remote address of c
MatchesOf(c) == {j \in 1..Len(active_connections) :
                    active_connections[j].remote = AddrToken(c.rip, c.rport)}

\* C1: in container mode a poll whose listing command fails is skipped: the
\* connectivity state and the open sessions are as before it, no stats
\* update is made and no notification is sent.
C1_FailedListingSkipsPoll ==
    (container_name # "" /\ ~cmd_ok /\ ev.kind # "init")
        => /\ last_status = ev.prev_status
           /\ client_sessions = ev.prev_sessions
           /\ ev.track_calls = <<>>
           /\ ev.flush_calls = <<>>
           /\ ev.notified = "none"

\* C2: when a session closes, the deltas handed to update_client for it
\* (every flush and the close) add up to close time minus the time of the
\* poll that opened it.
C2_SessionDeltasAddUp ==
    \A r \in ev.closed : r.sum = r.close - r.open

\* a session closes after two flushes
C2_Witness ==
    \E r \in ev.closed : r.flushes >= 2 /\ r.last > 0 /\ r.sum = r.close - r.open

\* C3: no entry of the target-match list is a connection on the forwarding
\* port, under either backend.
C3_SocksConnNeverTarget ==
    Polled => \A j \in 1..Len(active_connections) :
                 ParseInt(SplitLast(active_connections[j].local)) # socks_port

\* a configured target port that integer-equals p
ConfiguredPort(p) == \E i \in 1..Len(target_ports) : PyInt(target_ports[i]) = p

\* C4: with explicit target ports, every remote address of a non-client
\* connection whose port is a configured target port is in the target-match
\* list exactly once.
C4_TargetListedOnce ==
    (Polled /\ ~PyIn(Star, target_ports))
        => \A c \in Seen :
              (Established(c) /\ ~IsClientConn(c) /\ ConfiguredPort(c.rport))
                  => Cardinality(MatchesOf(c)) = 1

\* C5: with the target list ["*"], a non-client connection is a target match
\* exactly if its remote IP is neither 127.0.0.1 nor ::1.
C5_WildcardExcludesOnlyLoopback ==
    (Polled /\ target_ports = TargetsStar)
        => \A c \in Seen :
              (Established(c) /\ ~IsClientConn(c))
                  => (MatchesOf(c) # {} <=> (c.rip # Loopback4 /\ c.rip # Loopback6))

\* C6: target list ["8080"], forwarding port 1080, either backend. The first
\* poll sees the client 9.9.9.9:5000 and the target 8.8.8.8:8080: the state
\* becomes connected with one open session, for 9.9.9.9. The second poll
\* sees nothing: the state becomes disconnected, the session is recorded
\* once, with about one poll interval, and the store holds that one record.
C6_EndToEnd ==
    /\ (Polled /\ ev.loop_time = 0 /\ cmd_ok /\ target_ports = TargetsStr
          /\ table = <<ClientA, TargetA>>)
         => /\ last_status = "connected"
            /\ ev.notified = "connected"
            /\ Len(client_sessions) = 1
            /\ client_sessions[1].ip = IpClientA
    /\ (Polled /\ cmd_ok /\ target_ports = TargetsStr /\ table = <<>>
          /\ ev.prev_status = "connected"
          /\ ev.prev_sessions = <<[ip |-> IpClientA, start |-> 0]>>
          /\ ev.prev_clients = <<AddrToken(IpClientA, 5000)>>
          /\ ev.loop_time <= Interval + MaxDelay)
         => /\ last_status = "disconnected"
            /\ ev.notified = "disconnected"
            /\ client_sessions = <<>>
            /\ ev.flush_calls = <<>>
            /\ Len(ev.track_calls) = 1
            /\ ev.track_calls[1].ip = IpClientA
            /\ ev.track_calls[1].delta >= Interval
            /\ ev.track_calls[1].delta <= Interval + MaxDelay
            /\ Len(stats) = 1
            /\ stats[1].ip = IpClientA
            /\ stats[1].total_duration = ev.track_calls[1].delta

\* C7: the state starts disconnected; it is connected exactly if the last
\* completed poll found a target match; a poll in the connected state that
\* finds matches, the same or others, makes no transition and sends nothing.
C7_LevelTriggered ==
    /\ ev.kind = "init" => last_status = "disconnected"
    /\ last_status = "connected" <=> Len(active_connections) > 0
    /\ (Polled /\ ev.prev_status = "connected" /\ Len(active_connections) > 0)
         => ev.notified = "none"

\* connected, and the poll finds other target connections than the one before
C7_Witness ==
    /\ Polled
    /\ ev.prev_status = "connected"
    /\ Len(active_connections) > 0
    /\ active_connections # ev.prev_connections
    /\ last_status = "connected"
    /\ ev.notified = "none"

\* C8: after a completed poll the IPs with an open session are the remote
\* IPs of the connections on the forwarding port that the poll saw.
C8_SessionsAreClientIps ==
    Polled => /\ Keys(client_sessions)
                   = {c.rip : c \in {x \in Seen : Established(x) /\ x.lport = socks_port}}
              /\ Cardinality(Keys(client_sessions)) = Len(client_sessions)

\* the set of client addresses of a poll
AddrSet(clients) == {clients[i] : i \in 1..Len(clients)}

\* C9: a poll with the client set of the poll before it opens and closes no
\* session, changes no start time and makes no stats update in its
\* session-tracking step.
C9_TrackerIdempotent ==
    (Polled /\ AddrSet(active_clients) = AddrSet(ev.prev_clients))
        => /\ ev.opened = {}
           /\ ev.closed = {}
           /\ ev.track_calls = <<>>
           /\ ev.tracked = ev.prev_sessions

\* a later poll sees the clients of the poll before it, with sessions open
C9_Witness ==
    /\ Polled
    /\ ev.loop_time > 0
    /\ active_clients # <<>>
    /\ AddrSet(active_clients) = AddrSet(ev.prev_clients)
    /\ ev.prev_sessions # <<>>
    /\ ev.tracked = ev.prev_sessions

\* C10, as claimed: a client seen by exactly 3 consecutive polls and absent
\* from the next is closed with a duration, close time minus opening time,
\* of at least 10 and at most 15 seconds.
C10_ClosedWithin10To15 ==
    \A r \in ev.closed :
        r.polls = 3 => /\ r.last = r.close - r.open
                       /\ r.last >= 10
                       /\ r.last <= 15

\* C10, amended: for such a client the recorded deltas add up to close time
\* minus opening time, which is three poll intervals plus the seconds the
\* iterations in between took beyond their sleep; with no flush in between
\* the close records all of it.
C10_ThreePollsAtLeast15 ==
    \A r \in ev.closed :
        r.polls = 3 => /\ r.sum = r.close - r.open
                       /\ r.sum = 3 * Interval + r.extra
                       /\ r.sum >= 15
                       /\ r.flushes = 0 => r.last = r.sum

\* a client of three polls closes after more than 15 seconds
C10_Witness ==
    \E r \in ev.closed : r.polls = 3 /\ r.ip = IpClientB /\ r.flushes = 0 /\ r.last > 15


\* the total recorded for ip in the store st, 0 when it has no record
Total(st, ip) == IF ip \in Keys(st) THEN st[IndexOf(st, ip)].total_duration ELSE 0

\* the update_client calls of the last iteration, in the order they were made
AllCalls == ev.track_calls \o ev.flush_calls \o ev.shutdown_calls

Durations(rows) == [i \in 1..Len(rows) |-> rows[i].total_duration]

\* C12: get_leaderboard(limit) returns min(limit, number of records) records
\* of the store; they are in descending order of total_duration, records of
\* equal duration in the store's insertion order; every record left out
\* comes, in that order, behind every record returned; and the durations
\* 50, 200, 10, 75 with limit 2 give 200 then 75.
C12_LeaderboardTopDescStable ==
    ev.kind \in {"board", "poll"} =>
        LET rows == ev.board
            n    == Len(stats)
            Pos(r) == IndexOf(stats, r.ip)
            Before(r, q) == \/ r.total_duration > q.total_duration
                            \/ /\ r.total_duration = q.total_duration
                               /\ Pos(r) < Pos(q)
        IN  /\ Len(rows) = IF ev.limit < n THEN ev.limit ELSE n
            /\ \A i \in 1..Len(rows) : rows[i].ip \in Keys(stats) /\ rows[i] = stats[Pos(rows[i])]
            /\ \A i, j \in 1..Len(rows) : i < j => Before(rows[i], rows[j])
            /\ \A i \in 1..Len(rows) : \A k \in 1..n :
                  (\A j \in 1..Len(rows) : rows[j].ip # stats[k].ip) => Before(rows[i], stats[k])
            /\ (Durations(stats) = <<50, 200, 10, 75>> /\ ev.limit = 2
                   => Durations(rows) = <<200, 75>>)

\* the limit cuts between two records of the same duration
C12_Witness ==
    /\ ev.kind = "board"
    /\ Durations(stats) = <<50, 200, 50, 75>>
    /\ ev.limit = 3
    /\ Durations(ev.board) = <<200, 75, 50>>
    /\ ev.board[3].ip = stats[1].ip


Stopped == ev.kind = "shutdown"

\* C13: when the process is interrupted, the handler makes exactly one
\* update_client call for every session open at that moment and none for
\* anything else; the call's duration is the shutdown time minus the
\* session's start time, and that start time is the time of the last flush
\* that restarted the session's clock, or of the poll that opened it.
C13_ShutdownRecordsEachOpenSessionOnce ==
    Stopped =>
        /\ Len(ev.shutdown_calls) = Len(client_sessions)
        /\ \A i \in 1..Len(ev.shutdown_calls) :
              ev.shutdown_calls[i].ip \in Keys(client_sessions)
        /\ \A i \in 1..Len(client_sessions) :
              LET s == client_sessions[i]
              IN  /\ CallCount(ev.shutdown_calls, s.ip) = 1
                  /\ DeltaSum(ev.shutdown_calls, s.ip) = now - s.start
                  /\ s.start = acct[s.ip].reset
                  /\ acct[s.ip].flushes = 0 => s.start = acct[s.ip].open

\* the interrupt finds a session that a flush has restarted and one that was
\* opened after that flush
C13_Witness ==
    /\ Stopped
    /\ \E i, j \in 1..Len(client_sessions) :
          LET s == client_sessions[i]
              r == client_sessions[j]
          IN  /\ acct[s.ip].flushes > 0
              /\ s.start > acct[s.ip].open
              /\ now > s.start
              /\ acct[r.ip].flushes = 0


\* C14: an interrupt takes effect only between two iterations: when the
\* handler runs, nothing of an iteration is half done, and for every session
\* that was open in the interrupted iteration the deltas recorded over its
\* life add up to its length - no time is lost and none is recorded twice.
C14_InterruptAtIterationBoundary ==
    Stopped =>
        /\ ev.cut = "asleep"
        /\ \A r \in ev.ended : r.sum = r.end - r.open


\* a configured target port that int() accepts, or "*"
WellFormedPort(p) == PyEq(p, Star) \/ PyInt(p) # ValueError

\* a socket whose remote address token ends in a number
WellFormedConn(c) == ParseInt(SplitLast(NetstatLine(c).remote)) # ValueError

\* C15: a malformed port string never fails a poll: the poll completes, and
\* its target matches and clients are those of the same poll without the
\* connections whose remote port is not a number and without the configured
\* target ports that are not numbers.
C15_MalformedPortSkipsOnlyItsEntry ==
    ev.kind # "init" =>
        LET clean == PollResult(container_name, cmd_ok,
                                SelectSeq(table, WellFormedConn),
                                SelectSeq(target_ports, WellFormedPort), socks_port)
        IN  /\ Polled
            /\ active_connections = clean.found
            /\ active_clients = clean.clients


\* the file holds the store st
OnDisk(dk, st) == dk = [whole |-> TRUE, doc |-> st]

\* C16: when an update's write to stats.json succeeds, the file holds the
\* in-memory store as that update left it.  When the write fails, the
\* failure does not leave save_stats: the iteration goes on, every delta is
\* in the in-memory store, and after the next write that succeeds the file
\* holds the store again, the deltas of the failed writes included.
C16_FileFollowsStore ==
    /\ pc # "crashed"
    /\ Len(ev.writes) = Len(AllCalls) /\ Len(ev.synced) = Len(AllCalls)
    /\ \A k \in 1..Len(ev.writes) : ev.writes[k] = "ok" => ev.synced[k]
    /\ \A ip \in Keys(stats) :
          Total(stats, ip) = Total(ev.prev_stats, ip) + DeltaSum(AllCalls, ip)
    /\ (ev.writes # <<>> /\ ev.writes[Len(ev.writes)] = "ok") => OnDisk(disk, stats)

\* an iteration starts with a file that a failed write left behind the store,
\* one of its own writes fails too, and its last write succeeds
C16_Witness ==
    /\ ~OnDisk(ev.prev_disk, ev.prev_stats)
    /\ \E k \in 1..Len(ev.writes) : ev.writes[k] # "ok"
    /\ ev.writes[Len(ev.writes)] = "ok"
    /\ OnDisk(disk, stats)
    /\ \E ip \in Keys(ev.prev_stats) : Total(ev.prev_stats, ip) > 0


\* C17: a webhook call that fails does not interrupt the loop: the iteration
\* that made it still commits the new status (and the connection start time
\* that goes with it) and goes to sleep for the poll interval, and the next
\* polls of the same status send nothing - the notification is not retried.
C17_FailedWebhookIsNotRetried ==
    /\ (Polled /\ ev.webhook = "failed") =>
          /\ pc = "running"
          /\ last_status = ev.notified
          /\ last_status # ev.prev_status
          /\ connection_start_time = IF last_status = "connected" THEN ev.flush_time
                                     ELSE None
          /\ now = ev.flush_time + Interval
          /\ notifications # <<>>
          /\ notifications[Len(notifications)] = last_status
    /\ (Polled /\ ev.last_hook = "failed" /\ last_status = ev.prev_status) =>
          /\ ev.webhook = "none"
          /\ ev.notified = "none"

\* the "connected" webhook failed, and a later poll that still sees the
\* target sends nothing
C17_Witness ==
    /\ Polled
    /\ ev.last_hook = "failed"
    /\ last_status = "connected"
    /\ ev.prev_status = "connected"
    /\ ev.webhook = "none"
    /\ notifications = <<"connected">>


\* the start time of the session of ip in sessions
StartOf(sessions, ip) == sessions[IndexOf(sessions, ip)].start

\* C18: a poll that derives the status the loop already has sends no
\* notification, flushes nothing and leaves last_status and
\* connection_start_time as they were; all it does is the tracking step:
\* it opens a session at loop_time for each new client IP, closes the
\* sessions of the IPs that left, with one update each, and keeps the others.
C18_SelfTransitionOnlyTracks ==
    (Polled /\ current_status(active_connections) = ev.prev_status) =>
        /\ ev.notified = "none"
        /\ ev.webhook = "none"
        /\ ev.flush_calls = <<>>
        /\ ev.board = <<>>
        /\ client_sessions = ev.tracked
        /\ last_status = ev.prev_status
        /\ connection_start_time = ev.prev_start
        /\ Keys(client_sessions) = current_client_ips(active_clients)
        /\ \A i \in 1..Len(client_sessions) :
              LET s == client_sessions[i]
              IN  s.start = IF s.ip \in Keys(ev.prev_sessions)
                            THEN StartOf(ev.prev_sessions, s.ip) ELSE ev.loop_time
        /\ \A ip \in Keys(stats) :
              Total(stats, ip) - Total(ev.prev_stats, ip) =
                  IF ip \in Keys(ev.prev_sessions) \ Keys(client_sessions)
                  THEN ev.loop_time - StartOf(ev.prev_sessions, ip) ELSE 0

\* a connected poll follows a connected poll and closes the session of a
\* client that left, while the target is still there
C18_Witness ==
    /\ Polled
    /\ ev.prev_status = "connected"
    /\ last_status = "connected"
    /\ ev.closed # {}
    /\ ev.track_calls # <<>>

\* the poll that goes from connected to disconnected
Disconnects == Polled /\ ev.prev_status = "connected" /\ last_status = "disconnected"

\* C19: sessions are flushed only by the poll that goes from connected to
\* disconnected.  For each open session whose start time lies before the
\* flush time that poll makes one update of flush time minus start time and
\* sets the start time to the flush time; a session with no time elapsed
\* gets no update and keeps its start time; the open sessions stay the same
\* sessions, in the same order.
C19_FlushOnDisconnectOnly ==
    Polled =>
        /\ ~Disconnects => ev.flush_calls = <<>> /\ client_sessions = ev.tracked
        /\ Disconnects =>
              /\ Len(client_sessions) = Len(ev.tracked)
              /\ Len(ev.flush_calls) <= Len(ev.tracked)
              /\ \A i \in 1..Len(ev.tracked) :
                    LET s == ev.tracked[i]
                        session_dur == ev.flush_time - s.start
                    IN  /\ client_sessions[i].ip = s.ip
                        /\ session_dur > 0 =>
                              /\ CallCount(ev.flush_calls, s.ip) = 1
                              /\ DeltaSum(ev.flush_calls, s.ip) = session_dur
                              /\ client_sessions[i].start = ev.flush_time
                        /\ session_dur <= 0 =>
                              /\ CallCount(ev.flush_calls, s.ip) = 0
                              /\ client_sessions[i].start = s.start
              /\ \A ip \in Keys(stats) :
                    Total(stats, ip) = Total(ev.prev_stats, ip)
                                       + DeltaSum(ev.track_calls, ip)
                                       + DeltaSum(ev.flush_calls, ip)

\* the flush finds a session with time elapsed and one opened by the same
\* poll, at the flush time
C19_Witness ==
    /\ Disconnects
    /\ \E i, j \in 1..Len(ev.tracked) :
          /\ ev.tracked[i].start < ev.flush_time
          /\ client_sessions[i].start = ev.flush_time
          /\ ev.tracked[j].start = ev.flush_time
          /\ CallCount(ev.flush_calls, ev.tracked[j].ip) = 0

\* C20: the store only grows.  Every record of the store before an
\* iteration is still there after it, in its place, with the same
\* first_seen; a record is new only if the iteration made an update for its
\* IP, and its first_seen is the time of that update; every update sets
\* last_seen to its time, and a record without an update is unchanged.
C20_RecordsOnlyGrow ==
    /\ Len(stats) >= Len(ev.prev_stats)
    /\ \A i \in 1..Len(ev.prev_stats) :
          /\ stats[i].ip = ev.prev_stats[i].ip
          /\ stats[i].first_seen = ev.prev_stats[i].first_seen
    /\ Cardinality(Keys(stats)) = Len(stats)
    /\ \A i \in 1..Len(stats) :
          LET r == stats[i]
              late == CallCount(ev.flush_calls \o ev.shutdown_calls, r.ip) > 0
          IN  IF CallCount(AllCalls, r.ip) > 0
              THEN /\ r.last_seen = IF late THEN ev.flush_time ELSE ev.loop_time
                   /\ i > Len(ev.prev_stats) =>
                         r.first_seen = IF CallCount(ev.track_calls, r.ip) > 0
                                        THEN ev.loop_time ELSE ev.flush_time
              ELSE i <= Len(ev.prev_stats) /\ r = ev.prev_stats[i]

\* an iteration updates a record made by an earlier one and makes a new one
C20_Witness ==
    /\ \E i \in 1..Len(ev.prev_stats) :
          /\ CallCount(AllCalls, stats[i].ip) > 0
          /\ stats[i].last_seen > ev.prev_stats[i].last_seen
          /\ stats[i].first_seen < stats[i].last_seen
    /\ Len(stats) > Len(ev.prev_stats)


\* the number of notifications with the title status sent so far
Sent(status) == Cardinality({i \in 1..Len(notifications) : notifications[i] = status})

\* C21: the notifications sent alternate, "connected" first: the odd ones
\* are "connected" and the even ones "disconnected"; and between two
\* iterations the "connected" ones outnumber the "disconnected" ones by one
\* when last_status is "connected" and by none when it is "disconnected".
C21_NotificationsAlternate ==
    /\ \A i \in 1..Len(notifications) :
          notifications[i] = IF i % 2 = 1 THEN "connected" ELSE "disconnected"
    /\ Sent("connected") - Sent("disconnected") =
          IF last_status = "connected" THEN 1 ELSE 0

\* the target came, went, came back and went again
C21_Witness ==
    /\ Polled
    /\ notifications = <<"connected", "disconnected", "connected", "disconnected">>
    /\ last_status = "disconnected"


\* the names of the fields of a list
Names(list) == [i \in 1..Len(list) |-> list[i].name]

LeaderboardField == Field("leaderboard", <<>>, "")

\* C22: the field list sent with a "disconnected" notification is the list
\* sent with the last "connected" notification - one or more target fields,
\* the client fields or the no-client field, the system-load field - with
\* nothing or with one leaderboard field behind it; it is never the
\* leaderboard field alone, and fields is bound when the disconnect branch
\* reads it.
C22_DisconnectedReusesConnectedFields ==
    (ev.kind = "poll" /\ ev.notified = "disconnected") =>
        LET base == ev.connected_fields
        IN  /\ pc = "running"
            /\ ev.prev_fields.bound
            /\ ev.prev_fields.list = base
            /\ Len(base) >= 3
            /\ base[1].name = "target"
            /\ base[Len(base)].name = "system"
            /\ \A i \in 1..Len(base) :
                  base[i].name \in {"target", "client", "noclient", "system"}
            /\ \/ ev.sent_fields = base
               \/ ev.sent_fields = Append(base, LeaderboardField)
            /\ ev.sent_fields # <<LeaderboardField>>

\* a "disconnected" notification carries the target, client and system-load
\* fields of the "connected" one before it, and the leaderboard field
C22_Witness ==
    /\ ev.kind = "poll"
    /\ ev.notified = "disconnected"
    /\ ev.sent_fields = Append(ev.connected_fields, LeaderboardField)
    /\ Names(ev.connected_fields) = <<"target", "client", "system">>


\* C23: when the target list holds "*" and explicit ports, the ports play no
\* part under either backend: a non-client connection is a target match
\* exactly if its remote IP is neither 127.0.0.1 nor ::1, so a connection to
\* 127.0.0.1 on a listed port is not reported.
C23_WildcardOverridesPorts ==
    (Polled /\ target_ports = TargetsStarPorts)
        => \A c \in Seen :
              (Established(c) /\ ~IsClientConn(c) /\ WellFormedConn(c))
                  => (MatchesOf(c) # {} <=> (c.rip # Loopback4 /\ c.rip # Loopback6))


Dots(s) == {i \in 1..Len(s) : s[i] = "."}

\* the first and the second number of a dotted IPv4 address
Octet1(ip) == IF Dots(ip) = {} THEN ValueError
              ELSE ParseInt(SubSeq(ip, 1, Min(Dots(ip)) - 1))

Octet2(ip) == IF Cardinality(Dots(ip)) < 2 THEN ValueError
              ELSE LET d1 == Min(Dots(ip))
                       d2 == Min(Dots(ip) \ {d1})
                   IN  ParseInt(SubSeq(ip, d1 + 1, d2 - 1))

\* 127.0.0.0/8 and ::1; 10.0.0.0/8, 172.16.0.0/12 and 192.168.0.0/16
PrivateOrLoopback(ip) ==
    \/ ip = Loopback6
    \/ Octet1(ip) = 127
    \/ Octet1(ip) = 10
    \/ Octet1(ip) = 192 /\ Octet2(ip) = 168
    \/ Octet1(ip) = 172 /\ Octet2(ip) \in 16..31

\* C24: an entry of the geolocation cache is never removed or replaced; a
\* lookup of an IP that has an entry returns the entry and makes no network
\* call; a lookup of a private or loopback IP returns the static record and
\* makes no network call.
C24_CacheIsPermanent ==
    ev.kind = "lookup" =>
        /\ \A k \in DOMAIN ev.prev_cache :
              k \in DOMAIN ip_country_cache /\ ip_country_cache[k] = ev.prev_cache[k]
        /\ ev.ip \in DOMAIN ev.prev_cache =>
              ev.info = ev.prev_cache[ev.ip] /\ ~ev.called
        /\ PrivateOrLoopback(ev.ip) =>
              ev.info = Info("Localhost") /\ ~ev.called

=============================================================================
